---- MODULE Spec2Model ----
(***************************************************************************)
(* check_couchbase.py: one evaluation pass over a Couchbase cluster.       *)
(*                                                                         *)
(* The run is sequential: load_config, two topology requests, a loop over  *)
(* the nodes (node / xdcr / data / query processors), then send_nagios.    *)
(* The configuration file, the command line and the cluster's answers are  *)
(* the inputs; they are drawn in Init.  Requests and the notifier can fail *)
(* at every call.                                                          *)
(***************************************************************************)
EXTENDS Integers, Sequences, FiniteSets, TLC

VARIABLES
    py3,        \* the interpreter behind "#!/usr/bin/env python": TRUE = Python 3
    args,       \* the parsed command line
    config,     \* the dict load_config returns (a record; AbsentKey = key not set)
    cluster,    \* what the REST API answers during this run
    pc,         \* position in main()
    i,          \* index of the node the loop is at
    j,          \* index of the config["data"] item the loop is at
    k,          \* index of the result send_nagios is at
    results,    \* main's `results`: [none |-> TRUE] is Python's None
    exitCode,   \* process exit status, Running while the process lives
    error,      \* what ended the run ("" while running or on success)
    calls,      \* processor calls made so far, in order
    fetches,    \* requests issued so far, in order
    computed,   \* (service, status, message) computed by send_nagios, in order
    printed,    \* service descriptions printed by --dump-services
    pathChecks, \* number of os.path.exists(nsca_path) calls
    sent,       \* lines piped to send_nsca, in order
    evalArgs,   \* arguments of a direct eval_status call
    evalOut,    \* its outcome
    descArgs,   \* arguments of a direct build_service_description call
    descOut     \* its outcome

runVars == <<args, config, cluster, pc, i, j, k, results, exitCode, error, calls,
             fetches, computed, printed, pathChecks, sent>>
fnVars == <<evalArgs, evalOut, descArgs, descOut>>
vars == <<py3, runVars, fnVars>>

-----------------------------------------------------------------------------
(* Python values.  A number is kept in hundredths (n = 150 is 1.5) with its *)
(* Python type (f: float); the inputs below keep every value exact.        *)

Scale == 100

None == [t |-> "none", n |-> 0, f |-> FALSE, s |-> ""]
IntV(v) == [t |-> "num", n |-> v * Scale, f |-> FALSE, s |-> ""]
FloatV(h) == [t |-> "num", n |-> h, f |-> TRUE, s |-> ""]
Str(x) == [t |-> "str", n |-> 0, f |-> FALSE, s |-> x]

\* isinstance(v, numbers.Number), isinstance(v, str)
IsNumber(v) == v.t = "num"
IsStr(v) == v.t = "str"

\* A dict key that is not set, and a key set to None, for string-valued keys.
AbsentKey == "<absent>"
NoneKey == "<None>"

\* The strings that reach a comparison, in Python's (code point) order.
StrOrder == <<"100", "active", "healthy", "inactiveFailed", "notRunning", "paused",
              "running", "unhealthy", "warmup">>

Rank(x) == CHOOSE r \in 1..Len(StrOrder) : StrOrder[r] = x

Operators == {">", ">=", "=", "<=", "<"}

\* operator.gt/lt/ge/le/eq on two keys of one ordered type
Relate(a, relate, b) ==
    CASE relate = ">"  -> a > b
      [] relate = "<"  -> a < b
      [] relate = ">=" -> a >= b
      [] relate = "<=" -> a <= b
      [] relate = "="  -> a = b

\* compare(inp, relate, cut): "True", "False", or the exception it raises.
\* A str against a number: == is False; an ordering raises TypeError on
\* Python 3 and on Python 2 orders every number before every string.
compare(inp, relate, cut) ==
    IF relate \notin Operators THEN "KeyError: op"
    ELSE IF IsNumber(inp) /\ IsNumber(cut)
         THEN (IF Relate(inp.n, relate, cut.n) THEN "True" ELSE "False")
    ELSE IF IsStr(inp) /\ IsStr(cut)
         THEN (IF Relate(Rank(inp.s), relate, Rank(cut.s)) THEN "True" ELSE "False")
    ELSE IF relate = "=" THEN "False"
    ELSE IF py3 THEN "TypeError: compare"
    ELSE IF Relate(IF IsNumber(inp) THEN 0 ELSE 1, relate,
                   IF IsNumber(cut) THEN 0 ELSE 1) THEN "True" ELSE "False"

Status(code, text) == [status |-> code, text |-> text, err |-> ""]
Raised(exc) == [status |-> -1, text |-> "", err |-> exc]

IsError(c) == c \in {"KeyError: op", "TypeError: compare"}

\* The warning half of eval_status's if/elif chain.
EvalWarning(value, warning, op) ==
    IF IsNumber(warning) \/ IsStr(warning)
    THEN LET c == compare(value, op, warning)
         IN  IF IsError(c) THEN Raised(c)
             ELSE IF c = "True" THEN Status(1, "WARNING")
             ELSE Status(0, "OK")
    ELSE Status(0, "OK")

eval_status_WarningFirst(value, critical, warning, op) ==
    LET w == EvalWarning(value, warning, op)
    IN  IF w.status = 1 THEN w
        ELSE IF IsNumber(critical) /\ compare(value, op, critical) = "True"
             THEN Status(2, "CRITICAL")
        ELSE w

eval_status(value, critical, warning, op) ==
    IF IsNumber(critical) \/ IsStr(critical)
    THEN LET c == compare(value, op, critical)
         IN  IF IsError(c) THEN Raised(c)
             ELSE IF c = "True" THEN Status(2, "CRITICAL")
             ELSE EvalWarning(value, warning, op)
    ELSE EvalWarning(value, warning, op)

-----------------------------------------------------------------------------
\* build_service_description(description, cluster_name, label, config);
\* opts holds the three config keys it reads.  "TypeError" when a None is
\* concatenated to the string.
build_service_description_AlwaysSep(description, cluster_name, label, opts) ==
    LET a == IF opts.service_prefix # AbsentKey THEN opts.service_prefix ELSE ""
        b == IF opts.service_include_cluster_name /\ cluster_name \notin {NoneKey, ""}
             THEN a \o " " \o cluster_name ELSE a
        c == IF opts.service_include_label THEN b \o " " \o label ELSE b
    IN  IF description = NoneKey THEN "TypeError" ELSE c \o " - " \o description

build_service_description(description, cluster_name, label, opts) ==
    LET a == IF opts.service_prefix # AbsentKey THEN opts.service_prefix ELSE ""
        b == IF opts.service_include_cluster_name /\ cluster_name \notin {NoneKey, ""}
             THEN a \o " " \o cluster_name ELSE a
        c == IF opts.service_include_label THEN b \o " " \o label ELSE b
        d == IF c # "" THEN c \o " - " ELSE c
    IN  IF description = NoneKey THEN "TypeError" ELSE d \o description

-----------------------------------------------------------------------------
(* Numbers *)

RECURSIVE Sum(_)
Sum(samples) == IF samples = <<>> THEN 0 ELSE Head(samples) + Sum(Tail(samples))

\* avg(samples) = sum(samples, 0) / len(samples) over a series of ints:
\* a float on Python 3, the floor on Python 2.  AvgRaises: ZeroDivisionError.
AvgRaises(samples) == Len(samples) = 0

avg(samples) ==
    IF py3 THEN FloatV((Sum(samples) * Scale) \div Len(samples))
    ELSE IntV(Sum(samples) \div Len(samples))

\* a / (b * 1.0) * 100
Percent(a, b) == FloatV((a.n * Scale * 100) \div b.n)

Add(a, b) == [t |-> "num", n |-> a.n + b.n, f |-> a.f \/ b.f, s |-> ""]

\* value / 1000 / 1000
ToMillis(v) ==
    IF py3 \/ v.f THEN FloatV(v.n \div 1000000)
    ELSE IntV(((v.n \div Scale) \div 1000) \div 1000)

RECURSIVE StripZeros(_)
StripZeros(v) ==
    IF v = 0 THEN 0 ELSE IF v % 10 = 0 THEN StripZeros(v \div 10) ELSE v

\* pretty_number(f): str(round(f, 2)).rstrip("0").rstrip("."), then float()
\* if a "." is left, 0 if nothing is left, int() otherwise.  round() of a
\* Python 3 int is an int, whose str() has no "." to stop rstrip("0").
pretty_number(v) ==
    IF py3 /\ ~v.f
    THEN IntV(StripZeros(v.n \div Scale))
    ELSE [t |-> "num", n |-> v.n, f |-> v.n % Scale # 0, s |-> ""]

\* str(x) of a node document's value
PyStr(v) ==
    IF IsStr(v) THEN v.s
    ELSE IF v.t = "none" THEN "None"
    ELSE IF ~v.f THEN ToString(v.n \div Scale)
    ELSE ToString(v.n \div Scale) \o "." \o
         (IF v.n % 10 = 0 THEN ToString((v.n % Scale) \div 10)
          ELSE IF v.n % Scale < 10 THEN "0" \o ToString(v.n % Scale)
          ELSE ToString(v.n % Scale))

-----------------------------------------------------------------------------
(* Rules *)

\* One entry of config["node"], config["xdcr"], config["query"] or of a
\* data item's "metrics".  crit and warn are None when the key is not set,
\* which is what setdefault leaves behind.
Rule(metric, description, op, crit, warn) ==
    [metric |-> metric, description |-> description, op |-> op,
     crit |-> crit, warn |-> warn]

\* m.setdefault("crit", None); m.setdefault("warn", None); m.setdefault("op", op)
SetDefaults(m, op) == [m EXCEPT !.op = IF @ = AbsentKey THEN op ELSE @]

\* validate_metric(metric, samples) is not False; samples: the names present
validate_metric(metric, samples) ==
    /\ metric.metric \notin {AbsentKey, NoneKey}
    /\ metric.metric \in samples
    /\ metric.description \notin {AbsentKey, NoneKey}
    /\ metric.op \in Operators

-----------------------------------------------------------------------------
(* Processors.  Each returns what the call leaves behind:                  *)
(*   res      the value it returns (main's list, or Python's None)         *)
(*   err      the exception that left it, "" if none                       *)
(*   fetched  the requests it issued, in order                             *)
(* fail = [at |-> n, kind |-> e]: the n-th request of the call raises e.   *)

List(l) == [none |-> FALSE, list |-> l]
NoneList == [none |-> TRUE, list |-> <<>>]

Result(host, metric, value, label) ==
    [host |-> host, metric |-> metric, value |-> value, label |-> label]

Out(res, err, fetched) == [res |-> res, err |-> err, fetched |-> fetched]

NoFail == [at |-> 0, kind |-> ""]

\* results.append(r)
CanAppend(res) == ~res.none
Appended(res, r) == List(Append(res.list, r))

\* process_node_stats(host, stats, config, results), from rule idx on
RECURSIVE NodeRules(_, _, _, _, _)
NodeRules(host, stats, rules, idx, res) ==
    IF idx > Len(rules) THEN Out(res, "", <<>>)
    ELSE LET m == SetDefaults(rules[idx], "=")
         IN  IF ~validate_metric(m, DOMAIN stats)
             THEN NodeRules(host, stats, rules, idx + 1, res)
             ELSE IF ~CanAppend(res) THEN Out(res, "AttributeError", <<>>)
             ELSE NodeRules(host, stats, rules, idx + 1,
                      Appended(res, Result(host, m, Str(PyStr(stats[m.metric])), "node")))

process_node_stats(host, stats, cfg, res) == NodeRules(host, stats, cfg.node, 1, res)

\* A request of the call: its URI joins fetched; it raises if it is fail.at.
Fails(fetched, fail) == fail.at = Len(fetched) + 1

HasKey(cfg, key) == key \in cfg.keys

\* task["id"] is {GUID}/{source_bucket}/{destination_bucket}
XdcrLabel(task) == "xdcr " \o task.src \o "/" \o task.dst

\* requests.utils.quote("replications/{id}/{metric}", safe="") in the stats URI
XdcrUri(task, metric) ==
    "/pools/default/buckets/" \o task.source \o "/stats/replications%2F" \o task.guid
        \o "%2F" \o task.src \o "%2F" \o task.dst \o "%2F" \o metric

\* stats["nodeStats"] of that URI: a series per node; a statistic the
\* server does not know comes back with empty series.
NodeStats(cl, metric) ==
    IF metric \in DOMAIN cl.xdcr THEN cl.xdcr[metric]
    ELSE [h \in {cl.nodes[n].host : n \in 1..Len(cl.nodes)} |-> <<>>]

\* process_xdcr_stats(host, tasks, config, results), from task t, rule idx on
RECURSIVE XdcrRules(_, _, _, _, _, _, _, _)
XdcrRules(host, cl, cfg, t, idx, res, fetched, fail) ==
    IF t > Len(cl.tasks) THEN Out(res, "", fetched)
    ELSE IF cl.tasks[t].type # "xdcr"
         THEN XdcrRules(host, cl, cfg, t + 1, 1, res, fetched, fail)
    ELSE IF ~HasKey(cfg, "xdcr") THEN Out(NoneList, "", fetched)
    ELSE IF idx > Len(cfg.xdcr)
         THEN XdcrRules(host, cl, cfg, t + 1, 1, res, fetched, fail)
    ELSE LET task == cl.tasks[t]
             m == SetDefaults(cfg.xdcr[idx], ">=")
             uri == XdcrUri(task, m.metric)
             series == NodeStats(cl, m.metric)
         IN  IF m.metric = AbsentKey THEN Out(res, "KeyError: metric", fetched)
             ELSE IF m.metric = "status"
                  THEN IF ~CanAppend(res) THEN Out(res, "AttributeError", fetched)
                       ELSE XdcrRules(host, cl, cfg, t, idx + 1,
                                Appended(res, Result(host, m, Str(task.status), XdcrLabel(task))),
                                fetched, fail)
             ELSE IF task.status \notin {"running", "paused"}
                  THEN XdcrRules(host, cl, cfg, t, idx + 1, res, fetched, fail)
             ELSE IF Fails(fetched, fail) THEN Out(res, fail.kind, Append(fetched, uri))
             ELSE IF host \notin DOMAIN series
                  THEN XdcrRules(host, cl, cfg, t, idx + 1, res, Append(fetched, uri), fail)
             ELSE IF Len(series[host]) = 0 THEN Out(NoneList, "", Append(fetched, uri))
             ELSE IF ~CanAppend(res) THEN Out(res, "AttributeError", Append(fetched, uri))
             ELSE XdcrRules(host, cl, cfg, t, idx + 1,
                      Appended(res, Result(host, m, avg(series[host]), XdcrLabel(task))),
                      Append(fetched, uri), fail)

process_xdcr_stats(host, cl, cfg, res, fail) ==
    XdcrRules(host, cl, cfg, 1, 1, res, <<>>, fail)

TotalOps == <<"cmd_get", "cmd_set", "incr_misses", "incr_hits", "decr_misses",
              "decr_hits", "delete_misses", "delete_hits">>

\* value = 0; for op in [...]: value += avg(stats[op])
RECURSIVE SumAvg(_, _, _)
SumAvg(stats, names, acc) ==
    IF names = <<>> THEN acc
    ELSE SumAvg(stats, Tail(names), Add(acc, avg(stats[Head(names)])))

\* The series a derived metric reads
Derived ==
    [percent_quota_utilization |-> <<"mem_used", "ep_mem_high_wat">>,
     percent_metadata_utilization |-> <<"ep_meta_data_memory", "ep_mem_high_wat">>,
     disk_write_queue |-> <<"ep_queue_size", "ep_flusher_todo">>,
     total_ops |-> TotalOps]

SeqRange(q) == {q[n] : n \in 1..Len(q)}

\* The exception computing a derived metric raises, "" if none
DerivedRaises(stats, name) ==
    IF \E x \in SeqRange(Derived[name]) : x \notin DOMAIN stats THEN "KeyError: samples"
    ELSE IF \E x \in SeqRange(Derived[name]) : AvgRaises(stats[x]) THEN "ZeroDivisionError"
    ELSE IF name \in {"percent_quota_utilization", "percent_metadata_utilization"}
            /\ avg(stats["ep_mem_high_wat"]).n = 0 THEN "ZeroDivisionError"
    ELSE ""

DerivedValue(stats, name) ==
    CASE name = "percent_quota_utilization" ->
            Percent(avg(stats["mem_used"]), avg(stats["ep_mem_high_wat"]))
      [] name = "percent_metadata_utilization" ->
            Percent(avg(stats["ep_meta_data_memory"]), avg(stats["ep_mem_high_wat"]))
      [] name = "disk_write_queue" ->
            Add(avg(stats["ep_queue_size"]), avg(stats["ep_flusher_todo"]))
      [] name = "total_ops" -> SumAvg(stats, TotalOps, IntV(0))

\* The loop of process_data_stats over metrics, from rule idx on
RECURSIVE DataRules(_, _, _, _, _, _, _)
DataRules(host, bucket, stats, rules, idx, res, fetched) ==
    IF idx > Len(rules) THEN Out(res, "", fetched)
    ELSE LET m == SetDefaults(rules[idx], ">=")
         IN  IF m.metric = AbsentKey THEN Out(res, "KeyError: metric", fetched)
             ELSE IF m.metric \in DOMAIN Derived
                  THEN IF DerivedRaises(stats, m.metric) # ""
                       THEN Out(res, DerivedRaises(stats, m.metric), fetched)
                       ELSE IF ~CanAppend(res) THEN Out(res, "AttributeError", fetched)
                       ELSE DataRules(host, bucket, stats, rules, idx + 1,
                                Appended(res, Result(host, m, DerivedValue(stats, m.metric), bucket)),
                                fetched)
             ELSE IF ~validate_metric(m, DOMAIN stats)
                  THEN DataRules(host, bucket, stats, rules, idx + 1, res, fetched)
             ELSE IF AvgRaises(stats[m.metric]) THEN Out(res, "ZeroDivisionError", fetched)
             ELSE IF ~CanAppend(res) THEN Out(res, "AttributeError", fetched)
             ELSE DataRules(host, bucket, stats, rules, idx + 1,
                      Appended(res, Result(host, m, avg(stats[m.metric]), bucket)), fetched)

BucketStatsUri(bucket) == "/pools/default/buckets/" \o bucket \o "/stats"

\* process_data_stats(host, bucket, metrics, config, results); fetched: the
\* requests main's data item has issued before the call
process_data_stats(host, bucket, metrics, cl, res, fetched, fail) ==
    LET uri == BucketStatsUri(bucket)
    IN  IF Fails(fetched, fail) THEN Out(res, fail.kind, Append(fetched, uri))
        ELSE IF bucket \notin DOMAIN cl.samples
             THEN Out(res, "HTTPError", Append(fetched, uri))
        ELSE DataRules(host, bucket, cl.samples[bucket], metrics, 1, res,
                       Append(fetched, uri))

Percentiles == {"request_timer.75%", "request_timer.95%", "request_timer.99%"}

\* The loop of process_query_stats over metrics, from rule idx on
RECURSIVE QueryRules(_, _, _, _, _, _)
QueryRules(host, stats, rules, idx, res, fetched) ==
    IF idx > Len(rules) THEN Out(res, "", fetched)
    ELSE LET m == SetDefaults(rules[idx], ">=")
             value == IF m.metric \in Percentiles THEN ToMillis(stats[m.metric])
                      ELSE stats[m.metric]
         IN  IF ~validate_metric(m, DOMAIN stats)
             THEN QueryRules(host, stats, rules, idx + 1, res, fetched)
             ELSE IF ~CanAppend(res) THEN Out(res, "AttributeError", fetched)
             ELSE QueryRules(host, stats, rules, idx + 1,
                      Appended(res, Result(host, m, value, "query")), fetched)

\* process_query_stats(host, config, results).  res is the list object the
\* caller passed, as the call leaves it: main drops the return value.
process_query_stats(host, cl, cfg, res, fail) ==
    IF ~HasKey(cfg, "query") THEN Out(res, "", <<>>)
    ELSE IF Fails(<<>>, fail) THEN Out(res, fail.kind, <<"/admin/stats">>)
    ELSE QueryRules(host, cl.query, cfg.query, 1, res, <<"/admin/stats">>)

-----------------------------------------------------------------------------
(* main() *)

Exit(code, err) == pc' = "exit" /\ exitCode' = code /\ error' = err

\* couchbase_request answers HTTPError with sys.exit(2); an exception nobody
\* catches ends the interpreter with status 1.
ExitStatus(err) == IF err = "HTTPError" THEN 2 ELSE 1

\* What can go wrong with the n requests of a call
Failures(n) ==
    {NoFail} \cup {[at |-> a, kind |-> e] : a \in 1..n, e \in {"HTTPError", "ConnectionError"}}

RequiredKeys == {"couchbase_user", "couchbase_password", "monitor_type",
                 "monitor_host", "monitor_port", "node", "data"}

\* validate_config reaches its return
ValidConfig(cfg) ==
    /\ RequiredKeys \subseteq cfg.keys
    /\ \A n \in 1..Len(cfg.data) : {"bucket", "metrics"} \subseteq cfg.data[n].keys

\* load_config's overrides from the command line, up to args.monitor_type
Overrides(a, cfg) ==
    [cfg EXCEPT !.all_nodes = a.all_nodes \/ @,
                !.dump_services = a.dump_services \/ @,
                !.send_metrics = ~a.no_metrics /\ @]

\* load_config().  `conifg["monitor_type"] - args.monitor_type` is a NameError.
LoadConfig ==
    /\ pc = "load"
    /\ config' = Overrides(args, config)
    /\ IF args.monitor_type # AbsentKey THEN Exit(1, "NameError")
       ELSE IF ~ValidConfig(config) THEN Exit(2, "config")
       ELSE pc' = "tasks" /\ UNCHANGED <<exitCode, error>>
    /\ UNCHANGED <<py3, args, cluster, i, j, k, results, calls, fetches, computed,
                   printed, pathChecks, sent, fnVars>>

\* tasks = couchbase_request(host, "/pools/default/tasks", config)
FetchTasks ==
    /\ pc = "tasks"
    /\ fetches' = Append(fetches, "/pools/default/tasks")
    /\ \E fail \in Failures(1) :
          IF fail.at = 1 THEN Exit(ExitStatus(fail.kind), fail.kind)
          ELSE pc' = "pools" /\ UNCHANGED <<exitCode, error>>
    /\ UNCHANGED <<py3, args, config, cluster, i, j, k, results, calls, computed,
                   printed, pathChecks, sent, fnVars>>

\* pools_default = couchbase_request(host, "/pools/default", config)
FetchPools ==
    /\ pc = "pools"
    /\ fetches' = Append(fetches, "/pools/default")
    /\ \E fail \in Failures(1) :
          IF fail.at = 1 THEN Exit(ExitStatus(fail.kind), fail.kind)
          ELSE pc' = "loop" /\ UNCHANGED <<exitCode, error>>
    /\ UNCHANGED <<py3, args, config, cluster, i, j, k, results, calls, computed,
                   printed, pathChecks, sent, fnVars>>

Target_Any(node) == TRUE

\* not (config["all_nodes"] is False and "thisNode" not in node)
Target(node) == config.all_nodes \/ node.thisNode

\* Where main goes after the node processor, the data loop or the query
\* processor of node i is through.
AfterNode(node) ==
    IF "kv" \in node.services THEN pc' = "xdcr" /\ UNCHANGED <<i, j>>
    ELSE IF "n1ql" \in node.services THEN pc' = "query" /\ UNCHANGED <<i, j>>
    ELSE pc' = "loop" /\ i' = i + 1 /\ UNCHANGED j

AfterData(node) ==
    IF "n1ql" \in node.services THEN pc' = "query" /\ UNCHANGED i
    ELSE pc' = "loop" /\ i' = i + 1

\* The call ended: with an exception, or back in main with its value.
Returned(out, proc) ==
    /\ calls' = Append(calls, [proc |-> proc, node |-> i, item |-> IF proc = "data" THEN j ELSE 0,
                                fetched |-> out.fetched, err |-> out.err])
    /\ fetches' = fetches \o out.fetched
    /\ results' = out.res

\* for node in nodes: ... continue
SkipNode ==
    /\ pc = "loop"
    /\ i <= Len(cluster.nodes)
    /\ ~Target(cluster.nodes[i])
    /\ i' = i + 1
    /\ UNCHANGED <<py3, args, config, cluster, pc, j, k, results, exitCode, error, calls,
                   fetches, computed, printed, pathChecks, sent, fnVars>>

\* results = process_node_stats(host, node, config, results)
ProcessNode ==
    /\ pc = "loop"
    /\ i <= Len(cluster.nodes)
    /\ Target(cluster.nodes[i])
    /\ LET node == cluster.nodes[i]
           out == process_node_stats(node.host, node.stats, config, results)
       IN  /\ Returned(out, "node")
           /\ IF out.err # "" THEN Exit(ExitStatus(out.err), out.err) /\ UNCHANGED <<i, j>>
              ELSE AfterNode(node) /\ UNCHANGED <<exitCode, error>>
    /\ UNCHANGED <<py3, args, config, cluster, k, computed, printed, pathChecks, sent, fnVars>>

\* results = process_xdcr_stats(host, tasks, config, results)
ProcessXdcr ==
    /\ pc = "xdcr"
    /\ LET node == cluster.nodes[i]
           n == Len(process_xdcr_stats(node.host, cluster, config, results, NoFail).fetched)
       IN  \E fail \in Failures(n) :
             LET out == process_xdcr_stats(node.host, cluster, config, results, fail)
             IN  /\ Returned(out, "xdcr")
                 /\ IF out.err # ""
                    THEN Exit(ExitStatus(out.err), out.err) /\ UNCHANGED <<i, j>>
                    ELSE /\ UNCHANGED <<exitCode, error>>
                         /\ IF Len(config.data) > 0
                            THEN pc' = "data" /\ j' = 1 /\ UNCHANGED i
                            ELSE AfterData(node) /\ UNCHANGED j
    /\ UNCHANGED <<py3, args, config, cluster, k, computed, printed, pathChecks, sent, fnVars>>

\* for bucket in couchbase_request(...): results = process_data_stats(...)
RECURSIVE AllBuckets(_, _, _, _, _, _, _)
AllBuckets(host, cl, metrics, b, res, fetched, fail) ==
    IF b > Len(cl.buckets) THEN Out(res, "", fetched)
    ELSE LET out == process_data_stats(host, cl.buckets[b], metrics, cl, res, fetched, fail)
         IN  IF out.err # "" THEN out
             ELSE AllBuckets(host, cl, metrics, b + 1, out.res, out.fetched, fail)

\* The body of `for item in config["data"]`.  The call for a named bucket
\* passes six arguments to the five of process_data_stats: a TypeError.
DataItem(host, cl, item, res, fail) ==
    IF item.bucket = "_all"
    THEN IF Fails(<<>>, fail)
         THEN Out(res, fail.kind, <<"/pools/default/buckets?skipMap=true">>)
         ELSE AllBuckets(host, cl, item.metrics, 1, res,
                         <<"/pools/default/buckets?skipMap=true">>, fail)
    ELSE Out(res, "TypeError: arguments", <<>>)

ProcessData ==
    /\ pc = "data"
    /\ LET node == cluster.nodes[i]
           item == config.data[j]
           n == Len(DataItem(node.host, cluster, item, results, NoFail).fetched)
       IN  \E fail \in Failures(n) :
             LET out == DataItem(node.host, cluster, item, results, fail)
             IN  /\ Returned(out, "data")
                 /\ IF out.err # ""
                    THEN Exit(ExitStatus(out.err), out.err) /\ UNCHANGED <<i, j>>
                    ELSE /\ UNCHANGED <<exitCode, error>>
                         /\ IF j < Len(config.data)
                            THEN j' = j + 1 /\ UNCHANGED <<pc, i>>
                            ELSE AfterData(node) /\ UNCHANGED j
    /\ UNCHANGED <<py3, args, config, cluster, k, computed, printed, pathChecks, sent, fnVars>>

\* process_query_stats(host, config, results)
ProcessQuery ==
    /\ pc = "query"
    /\ LET node == cluster.nodes[i]
           n == Len(process_query_stats(node.host, cluster, config, results, NoFail).fetched)
       IN  \E fail \in Failures(n) :
             LET out == process_query_stats(node.host, cluster, config, results, fail)
             IN  /\ Returned(out, "query")
                 /\ IF out.err # ""
                    THEN Exit(ExitStatus(out.err), out.err) /\ UNCHANGED i
                    ELSE pc' = "loop" /\ i' = i + 1 /\ UNCHANGED <<exitCode, error>>
    /\ UNCHANGED <<py3, args, config, cluster, j, k, computed, printed, pathChecks, sent, fnVars>>

\* The loop is through: if config["monitor_type"] == "nagios": send_nagios(...)
\* else sys.exit(2).  `for result in results` over None is a TypeError.
EndLoop ==
    /\ pc = "loop"
    /\ i > Len(cluster.nodes)
    /\ IF config.monitor_type # "nagios" THEN Exit(2, "monitor_type")
       ELSE IF results.none THEN Exit(1, "TypeError: NoneType")
       ELSE pc' = "send" /\ UNCHANGED <<exitCode, error>>
    /\ UNCHANGED <<py3, args, config, cluster, i, j, k, results, calls, fetches, computed,
                   printed, pathChecks, sent, fnVars>>

\* cluster_name = pools_default["clusterName"] if set, else None
ClusterName == IF cluster.clusterName = AbsentKey THEN NoneKey ELSE cluster.clusterName

\* What one turn of send_nagios's loop computes before it prints or sends
Service(r) ==
    build_service_description(r.metric.description, ClusterName, r.label, config)

Pretty(r) == IF IsNumber(r.value) THEN pretty_number(r.value) ELSE r.value

Verdict(r) == eval_status(Pretty(r), r.metric.crit, r.metric.warn, r.metric.op)

\* "{0} - {1}: {2}".format(status_text, metric["metric"], value), as its arguments
Message(r) == <<Verdict(r).text, r.metric.metric, Pretty(r)>>

\* The exception the computation raises, "" if none
ComputeRaises(r) ==
    IF r.metric.description = AbsentKey THEN "KeyError: description"
    ELSE IF Service(r) = "TypeError" THEN "TypeError: description"
    ELSE Verdict(r).err

Line(r) ==
    [host |-> r.host, service |-> Service(r), status |-> Verdict(r).status,
     message |-> Message(r)]

Mode_IgnoresNoMetrics(cfg) == IF cfg.dump_services THEN "dump" ELSE "send"

\* The two `continue` tests of the loop: --dump-services prints, a false
\* send_metrics stops before the notifier
Mode(cfg) ==
    IF cfg.dump_services THEN "dump"
    ELSE IF ~cfg.send_metrics THEN "disabled"
    ELSE "send"

\* One turn of `for result in results` in send_nagios.  exists: what
\* os.path.exists(nsca_path) answers; rc: send_nsca's exit status.
SendResult ==
    /\ pc = "send"
    /\ k <= Len(results.list)
    /\ LET r == results.list[k]
       IN  IF ComputeRaises(r) # ""
           THEN /\ Exit(1, ComputeRaises(r))
                /\ UNCHANGED <<k, computed, printed, pathChecks, sent>>
           ELSE /\ computed' = Append(computed, Line(r))
                /\ IF Mode(config) = "dump"
                   THEN /\ printed' = Append(printed, Service(r))
                        /\ k' = k + 1
                        /\ UNCHANGED <<pc, exitCode, error, pathChecks, sent>>
                   ELSE IF Mode(config) = "disabled"
                   THEN /\ k' = k + 1
                        /\ UNCHANGED <<pc, exitCode, error, printed, pathChecks, sent>>
                   ELSE \E exists \in BOOLEAN, rc \in {0, 1} :
                        /\ pathChecks' = pathChecks + 1
                        /\ UNCHANGED printed
                        /\ IF ~exists
                           THEN Exit(2, "nsca_path") /\ UNCHANGED <<k, sent>>
                           ELSE /\ sent' = Append(sent, Line(r))
                                /\ IF rc # 0 THEN Exit(2, "send_nsca") /\ UNCHANGED k
                                   ELSE k' = k + 1 /\ UNCHANGED <<pc, exitCode, error>>
    /\ UNCHANGED <<py3, args, config, cluster, i, j, results, calls, fetches, fnVars>>

\* print("OK - check_couchbase ran successfully"); main returns
SendDone ==
    /\ pc = "send"
    /\ k > Len(results.list)
    /\ Exit(0, "")
    /\ UNCHANGED <<py3, args, config, cluster, i, j, k, results, calls, fetches, computed,
                   printed, pathChecks, sent, fnVars>>

Next ==
    \/ LoadConfig
    \/ FetchTasks
    \/ FetchPools
    \/ SkipNode
    \/ ProcessNode
    \/ ProcessXdcr
    \/ ProcessData
    \/ ProcessQuery
    \/ EndLoop
    \/ SendResult
    \/ SendDone

-----------------------------------------------------------------------------
(* Inputs.  A run starts from a configuration file, a command line, an     *)
(* interpreter and a cluster.  Each of these has a usual form and a list   *)
(* of other forms; a run differs from the usual one in at most MaxDev      *)
(* places.                                                                 *)

MaxDev == 2

\* A rule as the four ways validate_metric names go wrong
Bad(kind, r) ==
    CASE kind = "nokey"   -> [r EXCEPT !.metric = AbsentKey]
      [] kind = "unknown" -> [r EXCEPT !.metric = "no_such_stat"]
      [] kind = "nodesc"  -> [r EXCEPT !.description = AbsentKey]
      [] kind = "badop"   -> [r EXCEPT !.op = "!="]

N_status == Rule("status", "Node status", AbsentKey, Str("unhealthy"), Str("warmup"))
N_memory == Rule("mcdMemoryReserved", "Memory reserved", "<", IntV(50), None)
X_status == Rule("status", "XDCR status", "=", Str("paused"), None)
X_changes == Rule("changes_left", "XDCR changes left", AbsentKey, IntV(1000), IntV(2))
Q_count == Rule("requests.count", "Query requests", AbsentKey, IntV(1000), IntV(50))
Q_timer == Rule("request_timer.95%", "Query p95", ">", IntV(10), IntV(1))
B_items == Rule("curr_items", "Items", AbsentKey, IntV(100), IntV(10))
B_quota == Rule("percent_quota_utilization", "Quota", AbsentKey, IntV(90), IntV(40))
B_queue == Rule("disk_write_queue", "Disk write queue", AbsentKey, IntV(4), None)
B_ops == Rule("total_ops", "Operations", "<", IntV(1), None)

Item(bucket, metrics) == [keys |-> {"bucket", "metrics"}, bucket |-> bucket, metrics |-> metrics]

Node(n, this, services) ==
    [host |-> "h" \o ToString(n), thisNode |-> this, services |-> services,
     stats |-> [status |-> Str("healthy"), clusterMembership |-> Str("active"),
                mcdMemoryReserved |-> IntV(100)]]

Task(type, status, dst) ==
    [type |-> type, status |-> status, guid |-> "g1", src |-> "b1", dst |-> dst,
     source |-> "b1"]

Samples(highwat, items) ==
    [curr_items |-> items, mem_used |-> <<40, 60>>, ep_mem_high_wat |-> highwat,
     ep_meta_data_memory |-> <<5, 5>>, ep_queue_size |-> <<2, 4>>,
     ep_flusher_todo |-> <<1, 1>>, cmd_get |-> <<1, 2>>, cmd_set |-> <<1, 1>>,
     incr_misses |-> <<0>>, incr_hits |-> <<0>>, decr_misses |-> <<0>>,
     decr_hits |-> <<0>>, delete_misses |-> <<0>>, delete_hits |-> <<2>>]

\* Every input with its usual form first
Forms ==
    [py        |-> <<TRUE, FALSE>>,
     argAll    |-> <<FALSE, TRUE>>,
     argDump   |-> <<FALSE, TRUE>>,
     argNoSend |-> <<FALSE, TRUE>>,
     argType   |-> <<AbsentKey, "nagios">>,
     flags     |-> <<[all_nodes |-> FALSE, dump_services |-> FALSE, send_metrics |-> TRUE],
                     [all_nodes |-> TRUE, dump_services |-> FALSE, send_metrics |-> TRUE],
                     [all_nodes |-> FALSE, dump_services |-> TRUE, send_metrics |-> TRUE],
                     [all_nodes |-> FALSE, dump_services |-> FALSE, send_metrics |-> FALSE]>>,
     type      |-> <<"nagios", "icinga">>,
     missing   |-> <<{}, {"monitor_host"}>>,
     node      |-> <<<<N_status>>,
                     <<Bad("nokey", N_status), N_status>>,
                     <<Bad("unknown", N_status), N_status>>,
                     <<Bad("nodesc", N_status), N_status>>,
                     <<Bad("badop", N_status), N_status>>,
                     <<N_memory>>,
                     <<>> >>,
     xdcr      |-> <<[set |-> TRUE, rules |-> <<X_status, X_changes>>],
                     [set |-> FALSE, rules |-> <<>>],
                     [set |-> TRUE, rules |-> <<Bad("nokey", X_changes), X_status>>],
                     [set |-> TRUE, rules |-> <<Bad("unknown", X_changes), X_status>>],
                     [set |-> TRUE, rules |-> <<Bad("nodesc", X_changes), X_status>>],
                     [set |-> TRUE, rules |-> <<Bad("badop", X_changes), X_status>>]>>,
     query     |-> <<[set |-> TRUE, rules |-> <<Q_count, Q_timer>>],
                     [set |-> FALSE, rules |-> <<>>],
                     [set |-> TRUE, rules |-> <<Bad("nokey", Q_count), Q_count>>],
                     [set |-> TRUE, rules |-> <<Bad("unknown", Q_count), Q_count>>],
                     [set |-> TRUE, rules |-> <<Bad("nodesc", Q_count), Q_count>>],
                     [set |-> TRUE, rules |-> <<Bad("badop", Q_count), Q_count>>]>>,
     data      |-> <<<<Item("_all", <<B_items, B_quota>>)>>,
                     <<Item("b1", <<B_items, B_quota>>)>>,
                     <<Item("_all", <<Bad("nokey", B_items), B_items>>)>>,
                     <<Item("_all", <<Bad("unknown", B_items), B_items>>)>>,
                     <<Item("_all", <<Bad("nodesc", B_items), B_items>>)>>,
                     <<Item("_all", <<Bad("badop", B_items), B_items>>)>>,
                     <<Item("_all", <<B_queue, B_ops>>)>>,
                     <<Item("_all", <<Bad("nodesc", B_queue)>>)>>,
                     <<Item("_all", <<B_items>>), Item("b2", <<B_items>>)>>,
                     <<[keys |-> {"metrics"}, bucket |-> AbsentKey, metrics |-> <<B_items>>]>>,
                     <<>> >>,
     service   |-> <<[service_prefix |-> AbsentKey, cluster |-> FALSE, label |-> FALSE],
                     [service_prefix |-> "CB", cluster |-> FALSE, label |-> FALSE],
                     [service_prefix |-> AbsentKey, cluster |-> TRUE, label |-> FALSE],
                     [service_prefix |-> AbsentKey, cluster |-> FALSE, label |-> TRUE],
                     [service_prefix |-> "CB", cluster |-> TRUE, label |-> TRUE]>>,
     nodes     |-> <<<<Node(1, TRUE, {"kv", "n1ql"})>>,
                     <<Node(1, TRUE, {"kv", "n1ql"}), Node(2, FALSE, {"kv", "n1ql"})>>,
                     <<Node(1, FALSE, {"kv"}), Node(2, TRUE, {"n1ql"})>>,
                     <<Node(1, TRUE, {"kv"}), Node(2, FALSE, {"index"})>>,
                     <<Node(1, TRUE, {"index", "fts"})>> >>,
     tasks     |-> <<<<Task("xdcr", "running", "b9")>>,
                     <<>>,
                     <<Task("rebalance", "notRunning", "")>>,
                     <<Task("xdcr", "paused", "b9")>>,
                     <<Task("xdcr", "notRunning", "b9")>>,
                     <<Task("xdcr", "running", "b8"), Task("xdcr", "running", "b9")>> >>,
     series    |-> <<[h1 |-> <<2, 4>>, h2 |-> <<1>>],
                     [h1 |-> <<>>, h2 |-> <<>>],
                     [h1 |-> <<2, 4>>, h2 |-> <<>>]>>,
     buckets   |-> <<<<"b1", "b2">>, <<"b1">>, <<>> >>,
     samples   |-> <<Samples(<<100, 100>>, <<10, 20>>),
                     Samples(<<0, 0>>, <<10, 20>>),
                     Samples(<<100, 100>>, <<>>),
                     [curr_items |-> <<1, 2>>]>>,
     name      |-> <<"prod", AbsentKey>>]

Inputs == DOMAIN Forms

\* The ways to differ from the usual forms in at most `left` of `inputs`:
\* for each, which form is taken (1: the usual one)
RECURSIVE Choices(_, _)
Choices(inputs, left) ==
    IF inputs = {} THEN {<<>>}
    ELSE LET d == CHOOSE x \in inputs : TRUE
             usual == {(d :> 1) @@ c : c \in Choices(inputs \ {d}, left)}
         IN  IF left = 0 THEN usual
             ELSE usual \cup {(d :> a) @@ c : a \in 2..Len(Forms[d]),
                                              c \in Choices(inputs \ {d}, left - 1)}

Form(c, d) == Forms[d][c[d]]

ArgsOf(c) ==
    [all_nodes |-> Form(c, "argAll"), dump_services |-> Form(c, "argDump"),
     no_metrics |-> Form(c, "argNoSend"), monitor_type |-> Form(c, "argType")]

\* What yaml.load returns, with validate_config's defaults for unset keys
FileOf(c) ==
    [keys |-> (RequiredKeys \ Form(c, "missing"))
                \cup (IF Form(c, "xdcr").set THEN {"xdcr"} ELSE {})
                \cup (IF Form(c, "query").set THEN {"query"} ELSE {}),
     all_nodes |-> Form(c, "flags").all_nodes,
     dump_services |-> Form(c, "flags").dump_services,
     send_metrics |-> Form(c, "flags").send_metrics,
     monitor_type |-> Form(c, "type"),
     node |-> Form(c, "node"),
     xdcr |-> Form(c, "xdcr").rules,
     query |-> Form(c, "query").rules,
     data |-> Form(c, "data"),
     service_prefix |-> Form(c, "service").service_prefix,
     service_include_cluster_name |-> Form(c, "service").cluster,
     service_include_label |-> Form(c, "service").label]

ClusterOf(c) ==
    [clusterName |-> Form(c, "name"),
     nodes |-> Form(c, "nodes"),
     tasks |-> Form(c, "tasks"),
     buckets |-> Form(c, "buckets"),
     samples |-> [b \in {"b1", "b2"} |-> Form(c, "samples")],
     xdcr |-> [changes_left |-> Form(c, "series")],
     query |-> ("requests.count" :> IntV(100)) @@ ("request_timer.95%" :> IntV(5000000))]

Usual == [d \in Inputs |-> 1]

MaxNodes == 2

\* Every list of up to MaxNodes nodes, by what main reads of a node
Topologies ==
    UNION {[1..n -> [thisNode : BOOLEAN, services : SUBSET {"kv", "n1ql"}]] : n \in 1..MaxNodes}

NodesOf(t) == [n \in 1..Len(t) |-> Node(n, t[n].thisNode, t[n].services)]

NoCall == [value |-> None, critical |-> None, warning |-> None, op |-> ""]
NoDesc == [description |-> "", cluster_name |-> "", label |-> "",
           opts |-> [service_prefix |-> AbsentKey, service_include_cluster_name |-> FALSE,
                     service_include_label |-> FALSE]]

Pending == Raised("pending")

FnIdle ==
    /\ evalArgs = NoCall
    /\ evalOut = Pending
    /\ descArgs = NoDesc
    /\ descOut = "<pending>"

RunStart ==
    /\ i = 1
    /\ j = 1
    /\ k = 1
    /\ results = List(<<>>)
    /\ exitCode = -1
    /\ error = ""
    /\ calls = <<>>
    /\ fetches = <<>>
    /\ computed = <<>>
    /\ printed = <<>>
    /\ pathChecks = 0
    /\ sent = <<>>

\* A run that differs from the usual one in at most MaxDev inputs, or the
\* usual run over any topology, with and without --all-nodes.
Init ==
    /\ \/ \E c \in Choices(Inputs, MaxDev) :
             /\ py3 = Form(c, "py")
             /\ args = ArgsOf(c)
             /\ config = FileOf(c)
             /\ cluster = ClusterOf(c)
       \/ \E t \in Topologies, a \in BOOLEAN :
             /\ py3 = TRUE
             /\ args = [ArgsOf(Usual) EXCEPT !.all_nodes = a]
             /\ config = FileOf(Usual)
             /\ cluster = [ClusterOf(Usual) EXCEPT !.nodes = NodesOf(t)]
    /\ pc = "load"
    /\ RunStart
    /\ FnIdle

Spec == Init /\ [][Next]_vars

-----------------------------------------------------------------------------
(* eval_status and build_service_description called on their own *)

MaxVal == 3

Numbers == {IntV(v) : v \in 0..MaxVal} \cup {FloatV(150)}
Strings == {Str("100"), Str("healthy"), Str("paused")}

EvalCalls ==
    [value : Numbers \cup Strings,
     critical : {None} \cup Numbers \cup Strings,
     warning : {None} \cup Numbers \cup Strings,
     op : Operators \cup {"!="}]

DescCalls ==
    [description : {"Memory", "Items"},
     cluster_name : {"prod", NoneKey, ""},
     label : {"bucket1", "node"},
     opts : [service_prefix : {AbsentKey, "P", ""},
             service_include_cluster_name : BOOLEAN,
             service_include_label : BOOLEAN]]

InitFn ==
    /\ py3 \in BOOLEAN
    /\ args = ArgsOf(Usual)
    /\ config = FileOf(Usual)
    /\ cluster = ClusterOf(Usual)
    /\ pc = "idle"
    /\ RunStart
    /\ \/ evalArgs \in EvalCalls /\ descArgs = NoDesc
       \/ evalArgs = NoCall /\ descArgs \in DescCalls
    /\ evalOut = Pending
    /\ descOut = "<pending>"

CallEval ==
    /\ evalArgs # NoCall
    /\ evalOut = Pending
    /\ evalOut' = eval_status(evalArgs.value, evalArgs.critical, evalArgs.warning, evalArgs.op)
    /\ UNCHANGED <<py3, runVars, evalArgs, descArgs, descOut>>

CallBuild ==
    /\ descArgs # NoDesc
    /\ descOut = "<pending>"
    /\ descOut' = build_service_description(descArgs.description, descArgs.cluster_name,
                                            descArgs.label, descArgs.opts)
    /\ UNCHANGED <<py3, runVars, evalArgs, evalOut, descArgs>>

NextFn == CallEval \/ CallBuild

SpecFn == InitFn /\ [][NextFn]_vars

-----------------------------------------------------------------------------
(* Claims *)

Called == evalOut # Pending

NumberOrNone(v) == v = None \/ IsNumber(v)

\* C1: for a numeric value, thresholds that are each absent or numeric and
\* one of the five operators, eval_status returns (2, CRITICAL) exactly when
\* critical is set and compare(value, op, critical) holds, else (1, WARNING)
\* exactly when warning is set and compare(value, op, warning) holds, else
\* (0, OK); a value meeting the critical condition is never WARNING or OK,
\* one meeting only the warning condition never CRITICAL.
C1_EvalStatusTiers ==
    (/\ Called
     /\ IsNumber(evalArgs.value)
     /\ NumberOrNone(evalArgs.critical)
     /\ NumberOrNone(evalArgs.warning)
     /\ evalArgs.op \in Operators)
    => LET crit == /\ evalArgs.critical # None
                   /\ compare(evalArgs.value, evalArgs.op, evalArgs.critical) = "True"
           warn == /\ evalArgs.warning # None
                   /\ compare(evalArgs.value, evalArgs.op, evalArgs.warning) = "True"
       IN  /\ evalOut.err = ""
           /\ evalOut = Status(2, "CRITICAL") <=> crit
           /\ evalOut = Status(1, "WARNING") <=> (~crit /\ warn)
           /\ evalOut = Status(0, "OK") <=> (~crit /\ ~warn)
           /\ evalArgs.op = ">=" /\ IsNumber(evalArgs.critical)
                 /\ evalArgs.value.n >= evalArgs.critical.n => evalOut.status = 2

\* C1's case: both thresholds are met and CRITICAL wins
C1_Witness ==
    /\ Called
    /\ evalArgs.op = ">="
    /\ evalArgs.value = IntV(3)
    /\ evalArgs.critical = IntV(2)
    /\ evalArgs.warning = IntV(1)
    /\ evalOut = Status(2, "CRITICAL")

Mismatch(value, threshold) ==
    \/ IsStr(value) /\ IsNumber(threshold)
    \/ IsNumber(value) /\ IsStr(threshold)

\* C2: for each of the five operators, a string value against a numeric
\* threshold, or a numeric value against a string threshold, never raises:
\* the mismatched threshold does not trigger its tier, and with no other
\* threshold the verdict is OK.  Stated for Python 3, where the failure is
\* an exception.
C2_MismatchFallsThrough ==
    (/\ Called
     /\ evalArgs.op \in Operators
     /\ py3
     /\ Mismatch(evalArgs.value, evalArgs.critical)
     /\ evalArgs.warning = None)
    => evalOut = Status(0, "OK")

Built == descOut # "<pending>"

\* C8: build_service_description returns the prefix (if any), the cluster
\* name if inclusion is on and there is one, the label if inclusion is on,
\* " - " iff one of these was emitted, then the description; with nothing
\* emitted it is the description alone; ("Memory", "prod", "bucket1") with
\* prefix "P" and both inclusions gives "P prod bucket1 - Memory".
C8_ServiceDescription ==
    Built =>
       LET o == descArgs.opts
           prefix == IF o.service_prefix = AbsentKey THEN "" ELSE o.service_prefix
           cname == IF o.service_include_cluster_name
                       /\ descArgs.cluster_name \notin {NoneKey, ""}
                    THEN " " \o descArgs.cluster_name ELSE ""
           label == IF o.service_include_label THEN " " \o descArgs.label ELSE ""
           emitted == Len(prefix) + Len(cname) + Len(label) > 0
       IN  /\ descOut = prefix \o cname \o label \o (IF emitted THEN " - " ELSE "")
                           \o descArgs.description
           /\ ~emitted => descOut = descArgs.description
           /\ (/\ descArgs.description = "Memory"
               /\ descArgs.cluster_name = "prod"
               /\ descArgs.label = "bucket1"
               /\ o = [service_prefix |-> "P", service_include_cluster_name |-> TRUE,
                       service_include_label |-> TRUE])
              => descOut = "P prod bucket1 - Memory"

\* C8's case: the example of the claim has been built
C8_Witness ==
    /\ descOut = "P prod bucket1 - Memory"
    /\ descArgs.description = "Memory"
    /\ descArgs.opts.service_prefix = "P"

\* A rule validate_metric has to reject, as far as the rule itself shows
RuleOK(m) ==
    /\ m.metric \notin {AbsentKey, NoneKey}
    /\ m.description \notin {AbsentKey, NoneKey}
    /\ m.op \in Operators

\* C3: in every processor a rule without a metric name, without a
\* description or with an operator outside the five is rejected without
\* raising and produces no result, and does not stop the run.
C3_MalformedRuleRejected ==
    /\ \A n \in 1..Len(results.list) : RuleOK(results.list[n].metric)
    /\ error \notin {"KeyError: metric", "KeyError: description", "KeyError: op"}

\* C4: with replication rules configured, an empty series for the current
\* host aborts only that task's remaining rules: main still holds its list
\* of results afterwards, and the run does not die on a missing list.
C4_EmptySeriesKeepsRun ==
    HasKey(config, "xdcr") =>
        /\ ~results.none
        /\ error \notin {"AttributeError", "TypeError: NoneType"}

\* C5: a data item with a bucket name makes exactly one stats request, for
\* that bucket, and one with `_all` one request for the bucket list and one
\* stats request per bucket; the data-bucket processor completes without
\* error.
C5_DataItemFetches ==
    \A n \in 1..Len(calls) :
        calls[n].proc = "data" =>
            LET item == config.data[calls[n].item]
                all == [b \in 1..Len(cluster.buckets) |-> BucketStatsUri(cluster.buckets[b])]
            IN  /\ calls[n].err # "TypeError: arguments"
                /\ calls[n].err = "" =>
                      calls[n].fetched =
                          IF item.bucket = "_all"
                          THEN <<"/pools/default/buckets?skipMap=true">> \o all
                          ELSE <<BucketStatsUri(item.bucket)>>

\* C6: a run that has issued a request ends with exit code 2 on an
\* unrecoverable error (a failed request among them) and 0 when it
\* completes; no other exit code is reachable.
C6_ExitCodes ==
    (pc = "exit" /\ fetches # <<>>) =>
        /\ exitCode \in {0, 2}
        /\ error = "ConnectionError" => exitCode = 2

\* C7: send_nsca is invoked once per result, in result order, when
\* dump_services is false and send_metrics is true; with dump_services it is
\* never invoked, its path never checked, and the service description is
\* printed once per result; with send_metrics false it is never invoked, its
\* path never checked, and service, severity and message are still computed
\* for every result.
C7_NotifierPerResult ==
    LET n == Len(results.list)
        dump == config.dump_services
        send == config.send_metrics
    IN  /\ (dump \/ ~send) => sent = <<>> /\ pathChecks = 0
        /\ ~dump => printed = <<>>
        /\ Len(sent) <= n /\ Len(printed) <= n /\ Len(computed) <= n
        /\ \A m \in 1..Len(sent) : sent[m] = Line(results.list[m])
        /\ \A m \in 1..Len(printed) : printed[m] = Service(results.list[m])
        /\ \A m \in 1..Len(computed) : computed[m] = Line(results.list[m])
        /\ pathChecks \in {Len(sent), Len(sent) + 1}
        /\ exitCode = 0 =>
              /\ Len(computed) = n
              /\ dump => Len(printed) = n
              /\ (~dump /\ send) => Len(sent) = n /\ pathChecks = n

\* C7's case: a completed run that piped several results to send_nsca
C7_Witness ==
    /\ exitCode = 0
    /\ ~config.dump_services
    /\ config.send_metrics
    /\ Len(sent) >= 3
    /\ Len(sent) = Len(results.list)

ProcRank == [node |-> 1, xdcr |-> 2, data |-> 3, query |-> 4]

CallsOf(n, proc) == {c \in 1..Len(calls) : calls[c].node = n /\ calls[c].proc = proc}

\* C9: the loop visits the nodes in order; for a target node (every node
\* with all_nodes, else the one marked thisNode) the node processor runs
\* first, the replication and data processors only if it has "kv", the
\* query processor only if it has "n1ql" and after those; nothing runs and
\* no result is produced for another node; send_nagios starts only after
\* every node has been processed.
C9_MainLoopOrder ==
    /\ \A c \in 1..Len(calls) :
          LET call == calls[c]
              node == cluster.nodes[call.node]
          IN  /\ call.node \in 1..Len(cluster.nodes)
              /\ config.all_nodes \/ node.thisNode
              /\ call.proc \in {"xdcr", "data"} => "kv" \in node.services
              /\ call.proc = "query" => "n1ql" \in node.services
              /\ call.proc = "node" <=> (c = 1 \/ calls[c - 1].node < call.node)
              /\ c > 1 =>
                    /\ calls[c - 1].node <= call.node
                    /\ calls[c - 1].node = call.node =>
                          \/ ProcRank[calls[c - 1].proc] < ProcRank[call.proc]
                          \/ calls[c - 1].proc = "data" /\ call.proc = "data"
              /\ call.proc = "data" => calls[c - 1].proc \in {"xdcr", "data"}
    /\ \A r \in 1..Len(results.list) :
          \E n \in 1..Len(cluster.nodes) :
             /\ cluster.nodes[n].host = results.list[r].host
             /\ config.all_nodes \/ cluster.nodes[n].thisNode
    /\ (pc = "send" \/ computed # <<>>) =>
          /\ i = Len(cluster.nodes) + 1
          /\ \A n \in 1..Len(cluster.nodes) :
                LET node == cluster.nodes[n]
                IN  (config.all_nodes \/ node.thisNode) =>
                       /\ Cardinality(CallsOf(n, "node")) = 1
                       /\ "kv" \in node.services =>
                             /\ Cardinality(CallsOf(n, "xdcr")) = 1
                             /\ Cardinality(CallsOf(n, "data")) = Len(config.data)
                       /\ "n1ql" \in node.services => Cardinality(CallsOf(n, "query")) = 1

\* C9's case: the loop is through; it skipped one node and ran all four
\* processors on another
C9_Witness ==
    /\ pc = "send"
    /\ Len(cluster.nodes) = 2
    /\ CallsOf(1, "node") = {}
    /\ CallsOf(2, "node") # {}
    /\ CallsOf(2, "xdcr") # {}
    /\ CallsOf(2, "data") # {}
    /\ CallsOf(2, "query") # {}

IsPrefix(a, b) == Len(a) <= Len(b) /\ \A n \in 1..Len(a) : a[n] = b[n]

\* C10: whenever a processor call returns to the main loop, main's results
\* is still a list, and it starts with the entries it held before the call;
\* stated for runs whose configuration holds no replication rules, where
\* process_xdcr_stats takes its early exit.
C10_ResultsOnlyGrow ==
    [][(pc' # "exit" /\ ~HasKey(config', "xdcr"))
          => ~results'.none /\ IsPrefix(results.list, results'.list)]_vars

====
